---- MODULE Spec2Model ----
(***************************************************************************)
(* Model of the two-pass LLM module extractor of pulse-challenge            *)
(* (src/core/ai_extractor.py): the tokenizer, the token-aware chunker, the  *)
(* LLM gateway, the response parser and the extract orchestrator.           *)
(*                                                                         *)
(* A text is a sequence of symbols.  A symbol of an input text is one       *)
(* character; a symbol of a JSON text is one lexeme (a bracket, a comma, a  *)
(* colon, one white-space character, one string literal or one number).     *)
(***************************************************************************)
EXTENDS Integers, Sequences, FiniteSets, TLC

\* ------------------------------------------------------------------ bounds
\* longest input text handed to _chunk_text_by_tokens directly
MaxLen == 8
\* longest input text handed to extract
MaxTextLen == 5
\* largest small token budget (the budgets are scaled stand-ins for 120000)
MaxBudget == 6
\* a token budget that every serialized raw list of the model fits in
LargeBudget == 50
\* most members of a response mapping handed to the parser
MaxMembers == 3
\* deepest max_depth a crawler is built with
MaxDepth == 2

NL == "\n"
SP == " "
\* a character outside the encoding's alphabet of merged text: it is encoded
\* byte by byte, three tokens for the one character
WIDE == "W"
\* the characters of an input text
Chars == {"a", WIDE, NL}
\* str.strip() and the JSON decoder's white space
Whitespace == {NL, SP}

Min(a, b) == IF a < b THEN a ELSE b

\* all texts over Chars of length 0..n
TextsUpTo(n) == UNION {[1..k -> Chars] : k \in 0..n}

\* --------------------------------------------------------------- tokenizer
\* The encoding (tiktoken's vocabulary is outside the repository) is modelled
\* by its merges: two adjacent equal symbols of these are one token, matched
\* left to right ("\n\n" is one token in cl100k_base and o200k_base, and runs
\* of letters and of blanks merge).  Every other symbol is one token, but for
\* the wide character, which is three.
MergedSymbols == {"a", NL, SP}

RECURSIVE RunBefore(_, _)
\* how many symbols equal to text[i] stand immediately before position i
RunBefore(text, i) ==
    IF i > 1 /\ text[i - 1] = text[i] THEN 1 + RunBefore(text, i - 1) ELSE 0

\* a token of the encoding starts at position i: the symbol is not the second
\* half of a merged pair
StartsToken(text, i) ==
    text[i] \notin MergedSymbols \/ RunBefore(text, i) % 2 = 0

\* len(self.encoding.encode(text, disallowed_special=()))
GetTokenCount(text) ==
    Cardinality({i \in 1..Len(text) : StartsToken(text, i)})
    + 2 * Cardinality({i \in 1..Len(text) : text[i] = WIDE})

\* ------------------------------------------------------ str.split / str.join
Sep == <<NL, NL>>

RECURSIVE SplitFrom(_, _, _)
\* text.split('\n\n') from position i on, cur being the block read so far:
\* the separator is matched left to right, without overlap.
SplitFrom(text, i, cur) ==
    IF i > Len(text) THEN <<cur>>
    ELSE IF i + 1 <= Len(text) /\ text[i] = NL /\ text[i + 1] = NL
         THEN <<cur>> \o SplitFrom(text, i + 2, <<>>)
         ELSE SplitFrom(text, i + 1, Append(cur, text[i]))

SplitBlocks(text) == SplitFrom(text, 1, <<>>)

RECURSIVE JoinBlocks(_)
\* "\n\n".join(blocks)
JoinBlocks(blocks) ==
    IF Len(blocks) = 0 THEN <<>>
    ELSE IF Len(blocks) = 1 THEN blocks[1]
    ELSE blocks[1] \o Sep \o JoinBlocks(Tail(blocks))

\* (a range that stops before the last, shorter slice)
ForceSplitFullSlicesOnly(block, char_limit) ==
    [k \in 1..(Len(block) \div char_limit) |->
        SubSeq(block, (k - 1) * char_limit + 1, k * char_limit)]

\* [block[i:i + char_limit] for i in range(0, len(block), char_limit)]
ForceSplitSlices(block, char_limit) ==
    [k \in 1..((Len(block) + char_limit - 1) \div char_limit) |->
        SubSeq(block, (k - 1) * char_limit + 1, Min(k * char_limit, Len(block)))]

\* (four characters per token)
CharLimitFour(mt) == mt * 4

\* char_limit = max_tokens * 3
CharLimit(mt) == mt * 3

\* block_tokens > max_tokens: the block goes through the force-split path
Oversized(block_tokens, mt) == block_tokens > mt

\* current_chunk_tokens + block_tokens > max_tokens and current_chunk_blocks
MustCloseChunk(cur_tokens, block_tokens, mt, cur_blocks) ==
    cur_tokens + block_tokens > mt /\ cur_blocks # <<>>

\* current_chunk_tokens += self._get_token_count("\n\n".join(current_chunk_blocks))
NextChunkTokens(cur_tokens, blocks) == cur_tokens + GetTokenCount(JoinBlocks(blocks))

\* -------------------------------------------------------------- JSON values
\* A decoded JSON value: a scalar (string, number), a list, or a mapping whose
\* members keep their order (Python's dict).  One record shape for the three.
JScalar(s) == [t |-> "scalar", v |-> s, keys |-> <<>>, items |-> <<>>]
JList(xs) == [t |-> "list", v |-> "", keys |-> <<>>, items |-> xs]
JDict(ks, xs) == [t |-> "dict", v |-> "", keys |-> ks, items |-> xs]

\* isinstance(data, list), isinstance(data, dict)
IsList(data) == data.t = "list"
IsDict(data) == data.t = "dict"
\* key in data
HasKey(data, k) == \E i \in 1..Len(data.keys) : data.keys[i] = k

\* the lexemes of a JSON text: string literals, numbers, punctuation
StringLits == {"module", "Description", "description", "A", "B", "d"}
NumberLits == {"1"}

\* d[k] = v on the ordered members (ks, xs): a repeated key keeps its place
\* and takes the later value
DictPut(ks, xs, k, v) ==
    IF \E i \in 1..Len(ks) : ks[i] = k
    THEN [keys |-> ks,
          items |-> [i \in 1..Len(xs) |-> IF ks[i] = k THEN v ELSE xs[i]]]
    ELSE [keys |-> Append(ks, k), items |-> Append(xs, v)]

\* the first position >= i of s that holds no white space (Len(s) + 1 if none)
SkipWs(s, i) ==
    LET rest == {j \in i..Len(s) : s[j] \notin Whitespace}
    IN IF rest = {} THEN Len(s) + 1
       ELSE CHOOSE j \in rest : \A k \in rest : j <= k

DecodeFail == [ok |-> FALSE, val |-> JScalar(""), next |-> 0]
DecodeOk(val, next) == [ok |-> TRUE, val |-> val, next |-> next]

RECURSIVE DecodeValue(_, _), DecodeItems(_, _, _), DecodeMembers(_, _, _, _)
\* the JSON decoder on the value that starts at position i
DecodeValue(s, i) ==
    LET j == SkipWs(s, i)
    IN IF j > Len(s) THEN DecodeFail
       ELSE IF s[j] = "["
            THEN LET k == SkipWs(s, j + 1)
                 IN IF k <= Len(s) /\ s[k] = "]"
                    THEN DecodeOk(JList(<<>>), k + 1)
                    ELSE DecodeItems(s, j + 1, <<>>)
       ELSE IF s[j] = "{"
            THEN LET k == SkipWs(s, j + 1)
                 IN IF k <= Len(s) /\ s[k] = "}"
                    THEN DecodeOk(JDict(<<>>, <<>>), k + 1)
                    ELSE DecodeMembers(s, j + 1, <<>>, <<>>)
       ELSE IF s[j] \in StringLits \cup NumberLits
            THEN DecodeOk(JScalar(s[j]), j + 1)
       ELSE DecodeFail

\* the elements of a list, after "[" or ","
DecodeItems(s, i, acc) ==
    LET r == DecodeValue(s, i)
        k == SkipWs(s, r.next)
    IN IF ~r.ok \/ k > Len(s) THEN DecodeFail
       ELSE IF s[k] = "," THEN DecodeItems(s, k + 1, Append(acc, r.val))
       ELSE IF s[k] = "]" THEN DecodeOk(JList(Append(acc, r.val)), k + 1)
       ELSE DecodeFail

\* the members of a mapping, after "{" or ","
DecodeMembers(s, i, ks, xs) ==
    LET j == SkipWs(s, i)
        c == SkipWs(s, j + 1)
    IN IF j > Len(s) \/ c > Len(s) THEN DecodeFail
       ELSE IF s[j] \notin StringLits \/ s[c] # ":" THEN DecodeFail
       ELSE LET r == DecodeValue(s, c + 1)
                k == SkipWs(s, r.next)
                d == DictPut(ks, xs, s[j], r.val)
            IN IF ~r.ok \/ k > Len(s) THEN DecodeFail
               ELSE IF s[k] = "," THEN DecodeMembers(s, k + 1, d.keys, d.items)
               ELSE IF s[k] = "}" THEN DecodeOk(JDict(d.keys, d.items), k + 1)
               ELSE DecodeFail

\* json.loads(s): the value, or JSONDecodeError (no value, trailing data)
JsonLoads(s) ==
    LET r == DecodeValue(s, 1)
    IN IF r.ok /\ SkipWs(s, r.next) > Len(s)
       THEN [exc |-> "", val |-> r.val]
       ELSE [exc |-> "JSONDecodeError", val |-> JScalar("")]

\* indent=2: a line break and two blanks per nesting level
Indent(lvl) == <<NL>> \o [k \in 1..(2 * lvl) |-> SP]

RECURSIVE DumpValue(_, _), DumpMembers(_, _, _, _)
\* the JSON encoder with indent=2 on a value at nesting level lvl
DumpValue(val, lvl) ==
    IF val.t = "scalar" THEN <<val.v>>
    ELSE IF val.t = "list"
         THEN IF val.items = <<>> THEN <<"[", "]">>
              ELSE <<"[">> \o DumpMembers(<<>>, val.items, lvl + 1, 1)
                           \o Indent(lvl) \o <<"]">>
    ELSE IF val.items = <<>> THEN <<"{", "}">>
         ELSE <<"{">> \o DumpMembers(val.keys, val.items, lvl + 1, 1)
                      \o Indent(lvl) \o <<"}">>

\* the elements (ks empty) or members from the i-th on, one per line
DumpMembers(ks, xs, lvl, i) ==
    IF i > Len(xs) THEN <<>>
    ELSE Indent(lvl)
         \o (IF ks # <<>> THEN <<ks[i], ":", SP>> ELSE <<>>)
         \o DumpValue(xs[i], lvl)
         \o (IF i < Len(xs) THEN <<",">> ELSE <<>>)
         \o DumpMembers(ks, xs, lvl, i + 1)

\* json.dumps(all_raw_modules, indent=2)
JsonDumps(xs) == DumpValue(JList(xs), 0)

\* --------------------------------------------------------- response parser
\* (a handler for another exception type)
CatchesKeyErrorOnly(exc) == exc = "KeyError"

\* except json.JSONDecodeError: the handler of _parse_llm_output
CatchesDecodeError(exc) == exc = "JSONDecodeError"

\* for key, value in data.items(): if isinstance(value, list): return value
HasListValue(data) == \E i \in 1..Len(data.items) : IsList(data.items[i])
\* (a scan that keeps the last list it meets)
LastListValue(data) ==
    LET i == CHOOSE i \in 1..Len(data.items) :
                 /\ IsList(data.items[i])
                 /\ \A k \in (i + 1)..Len(data.items) : ~IsList(data.items[k])
    IN data.items[i].items

FirstListValue(data) ==
    LET i == CHOOSE i \in 1..Len(data.items) :
                 /\ IsList(data.items[i])
                 /\ \A k \in 1..(i - 1) : ~IsList(data.items[k])
    IN data.items[i].items

\* (a parser that looks for the lower-case key)
IsSingleModuleLower(data) == HasKey(data, "module") /\ HasKey(data, "description")

\* (a test that is content with the module key)
IsSingleModuleModuleOnly(data) == HasKey(data, "module")

\* 'module' in data and 'Description' in data
IsSingleModule(data) == HasKey(data, "module") /\ HasKey(data, "Description")

Returns(out) == [exc |-> "", out |-> out]
Raises(exc) == [exc |-> exc, out |-> <<>>]

\* _parse_llm_output(response_text): what it returns, or the exception that
\* leaves it
ParseLlmOutput(response_text) ==
    IF response_text = <<>> THEN Returns(<<>>)
    ELSE LET r == JsonLoads(response_text)
             data == r.val
         IN IF r.exc # ""
            THEN IF CatchesDecodeError(r.exc) THEN Returns(<<>>) ELSE Raises(r.exc)
            ELSE IF IsList(data) THEN Returns(data.items)
            ELSE IF IsDict(data) /\ HasListValue(data) THEN Returns(FirstListValue(data))
            ELSE IF IsDict(data) /\ IsSingleModule(data) THEN Returns(<<data>>)
            ELSE Returns(<<>>)

\* ------------------------------------------------------------- LLM gateway
\* (no stripping: `if not consolidated_text`)
StripNothing(s) == s

\* text.strip(): the text without its leading and trailing white space
Strip(s) ==
    LET solid == {i \in 1..Len(s) : s[i] \notin Whitespace}
    IN IF solid = {} THEN <<>>
       ELSE SubSeq(s, CHOOSE i \in solid : \A k \in solid : i <= k,
                      CHOOSE j \in solid : \A k \in solid : j >= k)

\* except openai.APIStatusError / except Exception: the two handlers of _call_llm
\* (only the first handler: a connection error goes through)
CaughtStatusErrorOnly(kind) == kind = "APIStatusError"

IsException(kind) == kind \in {"APIStatusError", "APIConnectionError", "JSONDecodeError"}
CaughtByCallLlm(kind) == kind = "APIStatusError" \/ IsException(kind)

\* _call_llm(content, system_prompt) when the API call ends as `outcome`: the
\* message content on success, the empty string on an absorbed error
CallLlm(outcome) ==
    IF outcome.kind = "ok" THEN [exc |-> "", text |-> outcome.content]
    ELSE IF CaughtByCallLlm(outcome.kind) THEN [exc |-> "", text |-> <<>>]
    ELSE [exc |-> outcome.kind, text |-> <<>>]

\* (an off-by-one comparison)
TooLargeOrEqual(num_tokens, limit) == num_tokens >= limit
\* (a comparison the wrong way round)
TooLargeInverted(num_tokens, limit) == num_tokens < limit

\* num_tokens > self.MAX_INPUT_TOKENS
TooLarge(num_tokens, limit) == num_tokens > limit

\* (a test that forgets the serialized empty list)
NoRawModulesBlankOnly(raw) == raw = <<>>
\* (no test at all)
NoRawModulesNever(raw) == FALSE

\* not raw_modules_json_string or raw_modules_json_string == "[]"
NoRawModules(raw) == raw = <<>> \/ raw = <<"[", "]">>

\* (an aggregation that puts the later records first)
ExtendRawFront(all_raw, parsed_chunk_modules) == parsed_chunk_modules \o all_raw

\* if parsed_chunk_modules: all_raw_modules.extend(parsed_chunk_modules)
ExtendRaw(all_raw, parsed_chunk_modules) ==
    IF parsed_chunk_modules # <<>> THEN all_raw \o parsed_chunk_modules ELSE all_raw

\* (a loop that sends a chunk again when its call gave nothing)
RetryFailedChunk(i, response) == IF response = <<>> THEN i ELSE i + 1

\* for i, chunk in enumerate(chunks): the index of the chunk after chunk i,
\* whatever the call for chunk i came back with
AdvanceChunk(i, response) == i + 1

\* (a synthesis that falls back on the raw records when it parsed nothing)
SynthesisResultOrRaw(final_modules, raw_modules) ==
    IF final_modules = <<>> THEN raw_modules ELSE final_modules

\* return self._parse_llm_output(final_response_text): what Pass 2 hands back,
\* whatever the raw records were
SynthesisResult(final_modules, raw_modules) == final_modules

\* ------------------------------------------------------------ construction
\* api_key=None (the environment variable is not set); a string of its own,
\* that no credential equals
NoKey == "<None>"
\* the credentials handed to the constructor: none, the empty one, a key
ApiKeys == {NoKey, "", "sk"}

\* (a test for None alone)
MissingKeyNoneOnly(k) == k = NoKey

\* not api_key
MissingKey(k) == k = NoKey \/ k = ""

\* ----------------------------------------------------------------- crawler
\* A URL is what urlparse reads of it: scheme, netloc, path.
Url(s, n, p) == [scheme |-> s, netloc |-> n, path |-> p]

SiteA == "a.com"
SiteB == "b.com"
A0 == Url("https", SiteA, "/")
A1 == Url("https", SiteA, "/docs")
A2 == Url("https", SiteA, "/docs/x")
A3 == Url("https", SiteA, "/docs/y")
ABlog == Url("https", SiteA, "/blog")
APdf == Url("https", SiteA, "/x.pdf")
B0 == Url("https", SiteB, "/")
B1 == Url("https", SiteB, "/docs")
MailTo == Url("mailto", "", "x@a.com")
Ftp == Url("ftp", SiteA, "/")
NoNetloc == Url("https", "", "/docs")

\* is_valid_url(url): a scheme and a netloc, and the text starts with http://
\* or https://
IsValidUrl(url) == url.scheme # "" /\ url.netloc # "" /\ url.scheme \in {"http", "https"}

\* get_base_domain(url): urlparse(url).netloc
GetBaseDomain(url) == url.netloc

\* one entry of _extract_links_info's list
LinkInfo(u, a) == [url |-> u, anchor_text |-> a]

\* the <a href> tags of the page at a URL, hrefs resolved against the page's
\* URL, in document order: a finite web with cycles inside site A, two pages
\* one link away from its root and one two links away, links across the two
\* sites, a repeated link, a link of the page to itself, and links the
\* relevance filter drops
Anchors(u) ==
    IF u = A0 THEN <<LinkInfo(A1, "Docs"), LinkInfo(ABlog, "Blog"), LinkInfo(B0, "Partner"),
                     LinkInfo(A0, "Home"), LinkInfo(A1, "Docs"), LinkInfo(MailTo, "Mail"),
                     LinkInfo(APdf, "Manual"), LinkInfo(A3, "More")>>
    ELSE IF u = A1 THEN <<LinkInfo(A2, "Guide"), LinkInfo(A0, "Home")>>
    ELSE IF u = A3 THEN <<LinkInfo(A2, "Guide"), LinkInfo(A1, "Docs")>>
    ELSE IF u = A2 THEN <<LinkInfo(A1, "Up"), LinkInfo(B1, "Other"), LinkInfo(A0, "Log in")>>
    ELSE IF u = B0 THEN <<LinkInfo(B1, "Docs"), LinkInfo(A1, "Docs")>>
    ELSE IF u = B1 THEN <<LinkInfo(B0, "Home"), LinkInfo(A2, "Guide")>>
    ELSE <<>>

\* the sequence of the elements of xs that satisfy Keep, in order
RECURSIVE SelectLinks(_, _)
SelectLinks(xs, keep) ==
    IF xs = <<>> THEN <<>>
    ELSE (IF keep[Head(xs)] THEN <<Head(xs)>> ELSE <<>>) \o SelectLinks(Tail(xs), keep)

\* _extract_links_info(html_content, base_url): the anchors whose resolved URL
\* starts with http:// or https://
ExtractLinksInfo(u) ==
    LET all == Anchors(u)
        keep == [l \in {all[i] : i \in 1..Len(all)} |-> l.url.scheme \in {"http", "https"}]
    IN SelectLinks(all, keep)

\* the paths, of the model's web, that end with an excluded extension, that
\* contain an excluded path, and the anchor texts that contain an excluded one
ExcludedExtensionPaths == {"/x.pdf"}
ExcludedPaths == {"/blog"}
ExcludedAnchors == {"Log in"}

\* _is_relevant_link(url, anchor_text)
IsRelevantLink(url, anchor_text) ==
    /\ url.scheme \in {"http", "https"}
    /\ url.path \notin ExcludedExtensionPaths
    /\ url.path \notin ExcludedPaths
    /\ anchor_text \notin ExcludedAnchors

\* links_to_add: the URLs of the links the filter keeps, in order
LinksToAdd(u) ==
    LET all == ExtractLinksInfo(u)
        keep == [l \in {all[i] : i \in 1..Len(all)} |-> IsRelevantLink(l.url, l.anchor_text)]
        kept == SelectLinks(all, keep)
    IN [i \in 1..Len(kept) |-> kept[i].url]

\* the URLs of the model's web
Pages == {A0, A1, A2, A3, ABlog, APdf, B0, B1, MailTo, Ftp, NoNetloc}

\* lines 64-70: links_to_add, for each page a fetch can return
links_to_add == [u \in Pages |-> LinksToAdd(u)]

\* link_domain == base_domain and link not in self.visited_urls
ShouldEnqueue(link, domain, visited) ==
    GetBaseDomain(link) = domain /\ link \notin visited

RECURSIVE EnqueueLinks(_, _, _, _, _)
\* the loop over links_to_add: the queue and the visited set after it
EnqueueLinks(links, depth, domain, q, visited) ==
    IF links = <<>> THEN [queue |-> q, visited_urls |-> visited]
    ELSE IF ShouldEnqueue(Head(links), domain, visited)
         THEN EnqueueLinks(Tail(links), depth, domain,
                           Append(q, <<Head(links), depth + 1>>),
                           visited \cup {Head(links)})
         ELSE EnqueueLinks(Tail(links), depth, domain, q, visited)

\* self.crawled_content[current_url] = html_content, on the keys: a new key
\* goes last, a key already there keeps its place
DictSetKey(keys, k) ==
    IF \E i \in 1..Len(keys) : keys[i] = k THEN keys ELSE Append(keys, k)

\* ------------------------------------------------------------------- state
VARIABLES
    pc,                    \* where the call stands
    text,                  \* the input text of the call
    max_tokens,            \* _chunk_text_by_tokens: the budget it was given
    text_blocks,           \* _chunk_text_by_tokens: text.split('\n\n')
    bi,                    \* _chunk_text_by_tokens: index of the next block
    chunks,                \* _chunk_text_by_tokens: the chunks emitted so far
    chunk_src,             \* per chunk: 0, or the index of the block it is a force-split slice of
    current_chunk_blocks,  \* _chunk_text_by_tokens: blocks of the open chunk
    current_chunk_tokens,  \* _chunk_text_by_tokens: the running token count
    response_text,         \* _parse_llm_output: its argument
    parsed,                \* _parse_llm_output: what it returned
    MAX_INPUT_TOKENS,      \* self.MAX_INPUT_TOKENS
    ci,                    \* _extract_raw_modules_from_chunks: index of the next chunk
    all_raw_modules,       \* _extract_raw_modules_from_chunks: the aggregated records
    raw_modules_json_string, \* extract: the serialized raw list
    calls,                 \* the Gateway calls of this extract call, in order
    final_response_text,   \* _synthesize_and_clean_modules: the Pass-2 response
    result,                \* what extract returned
    exit_path,             \* the return statement extract left by
    given_key,             \* LLMModuleExtractor(api_key=...): the credential handed in
    api_key,               \* self.api_key
    served,                \* the instance has returned from an extract call before
    max_depth,             \* WebCrawler: self.max_depth
    visited_urls,          \* WebCrawler: self.visited_urls
    queue,                 \* WebCrawler: self.queue, of <<url, depth>>
    crawled_content,       \* WebCrawler: self.crawled_content, its keys in insertion order
    base_domain,           \* crawl: the base domain of the seed
    start_url,             \* crawl: its argument
    fetch_log,             \* crawl: <<url, depth, got a page>> of each _fetch_page call of this crawl
    crawl_result           \* what crawl returned, its keys in insertion order

chunkVars == <<max_tokens, text_blocks, bi, chunks, chunk_src,
               current_chunk_blocks, current_chunk_tokens>>
parseVars == <<response_text, parsed>>
passVars == <<ci, all_raw_modules, raw_modules_json_string, calls,
              final_response_text, result, exit_path>>
instanceVars == <<MAX_INPUT_TOKENS, given_key, api_key, served>>
crawlVars == <<max_depth, visited_urls, queue, crawled_content, base_domain,
               start_url, fetch_log, crawl_result>>
vars == <<pc, text, chunkVars, parseVars, instanceVars, passVars, crawlVars>>

\* ----------------------------------------------------------------- chunker
\* lines 156-157: entry of _chunk_text_by_tokens(t, mt)
ChunkEnter(t, mt) ==
    /\ max_tokens' = mt
    /\ text_blocks' = SplitBlocks(t)
    /\ bi' = 1
    /\ chunks' = <<>>
    /\ chunk_src' = <<>>
    /\ current_chunk_blocks' = <<>>
    /\ current_chunk_tokens' = 0

\* lines 159-170: one iteration of the loop on an oversized block
ChunkForceSplit ==
    /\ pc = "Chunking"
    /\ bi <= Len(text_blocks)
    /\ LET block == text_blocks[bi]
           block_tokens == GetTokenCount(block)
           flushed == IF current_chunk_blocks # <<>>
                      THEN <<JoinBlocks(current_chunk_blocks)>> ELSE <<>>
           slices == ForceSplitSlices(block, CharLimit(max_tokens))
       IN /\ Oversized(block_tokens, max_tokens)
          /\ chunks' = chunks \o flushed \o slices
          /\ chunk_src' = chunk_src \o [k \in 1..Len(flushed) |-> 0]
                                    \o [k \in 1..Len(slices) |-> bi]
          /\ current_chunk_blocks' = <<>>
          /\ current_chunk_tokens' = 0
    /\ bi' = bi + 1
    /\ UNCHANGED <<pc, text, max_tokens, text_blocks, parseVars,
                   instanceVars, crawlVars, passVars>>

\* lines 159-161, 172-177: one iteration of the loop on a block within budget
ChunkAccumulate ==
    /\ pc = "Chunking"
    /\ bi <= Len(text_blocks)
    /\ LET block == text_blocks[bi]
           block_tokens == GetTokenCount(block)
           close == MustCloseChunk(current_chunk_tokens, block_tokens,
                                   max_tokens, current_chunk_blocks)
           blocks0 == IF close THEN <<>> ELSE current_chunk_blocks
           tokens0 == IF close THEN 0 ELSE current_chunk_tokens
       IN /\ ~Oversized(block_tokens, max_tokens)
          /\ chunks' = IF close THEN Append(chunks, JoinBlocks(current_chunk_blocks))
                       ELSE chunks
          /\ chunk_src' = IF close THEN Append(chunk_src, 0) ELSE chunk_src
          /\ current_chunk_blocks' = Append(blocks0, block)
          /\ current_chunk_tokens' = NextChunkTokens(tokens0, Append(blocks0, block))
    /\ bi' = bi + 1
    /\ UNCHANGED <<pc, text, max_tokens, text_blocks, parseVars,
                   instanceVars, crawlVars, passVars>>

\* lines 179-183: the trailing chunk, and the return to the caller
ChunkReturn(to) ==
    /\ pc = "Chunking"
    /\ bi > Len(text_blocks)
    /\ chunks' = IF current_chunk_blocks # <<>>
                 THEN Append(chunks, JoinBlocks(current_chunk_blocks)) ELSE chunks
    /\ chunk_src' = IF current_chunk_blocks # <<>> THEN Append(chunk_src, 0) ELSE chunk_src
    /\ pc' = to
    /\ UNCHANGED <<text, max_tokens, text_blocks, bi, current_chunk_blocks,
                   current_chunk_tokens, parseVars, instanceVars, crawlVars, passVars>>

\* ------------------------------------------------------------ idle values
\* the budgets an extractor is built with: every small one, and one that any
\* serialized raw list of the model fits in
Budgets == (1..MaxBudget) \cup {LargeBudget}

ChunkIdle ==
    /\ max_tokens = 0
    /\ text_blocks = <<>>
    /\ bi = 0
    /\ chunks = <<>>
    /\ chunk_src = <<>>
    /\ current_chunk_blocks = <<>>
    /\ current_chunk_tokens = 0

ParseIdle ==
    /\ response_text = <<>>
    /\ parsed = <<>>

PassIdle ==
    /\ ci = 0
    /\ all_raw_modules = <<>>
    /\ raw_modules_json_string = <<>>
    /\ calls = <<>>
    /\ final_response_text = <<>>
    /\ result = <<>>
    /\ exit_path = ""

\* an extractor built with a credential
InstanceBuilt ==
    /\ given_key = "sk"
    /\ api_key = "sk"
    /\ served = FALSE

\* WebCrawler(max_depth=d) before any crawl call
CrawlerFresh(d) ==
    /\ max_depth = d
    /\ visited_urls = {}
    /\ queue = <<>>
    /\ crawled_content = <<>>
    /\ base_domain = ""
    /\ start_url = NoNetloc
    /\ fetch_log = <<>>
    /\ crawl_result = <<>>

\* ---------------------------------------- the chunker called on its own
\* _chunk_text_by_tokens(t, mt) for any text t and any budget mt > 0
InitChunk ==
    /\ pc = "Chunking"
    /\ \E t \in TextsUpTo(MaxLen), mt \in Budgets :
          /\ text = t
          /\ max_tokens = mt
          /\ MAX_INPUT_TOKENS = mt
          /\ text_blocks = SplitBlocks(t)
    /\ bi = 1
    /\ chunks = <<>>
    /\ chunk_src = <<>>
    /\ current_chunk_blocks = <<>>
    /\ current_chunk_tokens = 0
    /\ ParseIdle
    /\ PassIdle
    /\ InstanceBuilt
    /\ CrawlerFresh(1)

ChunkReturned == ChunkReturn("Returned")

NextChunk == ChunkForceSplit \/ ChunkAccumulate \/ ChunkReturned

SpecChunk == InitChunk /\ [][NextChunk]_vars

\* ----------------------------------------- the parser called on its own
\* the values a member of a response mapping takes
MemberValues == {JScalar("A"), JDict(<<>>, <<>>), JList(<<>>), JList(<<JScalar("d")>>)}
MemberKeys == {"module", "Description", "description"}
\* the key/value pairs a response mapping is written from, in any order and
\* with repeats, up to MaxMembers of them
MemberSeqs ==
    UNION {[1..n -> MemberKeys \X MemberValues] : n \in 0..MaxMembers}

RECURSIVE WriteValue(_), WriteMembers(_, _, _)
\* a JSON text of a value, written without white space
WriteValue(val) ==
    IF val.t = "scalar" THEN <<val.v>>
    ELSE IF val.t = "list" THEN <<"[">> \o WriteMembers(<<>>, val.items, 1) \o <<"]">>
    ELSE <<"{">> \o WriteMembers(val.keys, val.items, 1) \o <<"}">>

WriteMembers(ks, xs, i) ==
    IF i > Len(xs) THEN <<>>
    ELSE (IF ks # <<>> THEN <<ks[i], ":">> ELSE <<>>)
         \o WriteValue(xs[i])
         \o (IF i < Len(xs) THEN <<",">> ELSE <<>>)
         \o WriteMembers(ks, xs, i + 1)

\* the mapping text whose members are the pairs of m, in order
WriteMapping(m) ==
    WriteValue(JDict([i \in 1..Len(m) |-> m[i][1]], [i \in 1..Len(m) |-> m[i][2]]))

ModuleA == JDict(<<"module", "Description">>, <<JScalar("A"), JScalar("d")>>)
ModuleB == JDict(<<"module", "Description">>, <<JScalar("B"), JScalar("d")>>)
ModuleLower == JDict(<<"module", "description">>, <<JScalar("A"), JScalar("d")>>)

\* the elements a response list is written from
ListElements == {JScalar("1"), JScalar("A"), ModuleA, ModuleLower, JList(<<>>)}
ListSeqs == UNION {[1..n -> ListElements] : n \in 0..2}

\* texts that do not decode
Undecodable ==
    { <<"a">>, <<"[">>, <<"[", "]", "]">>, <<"[", "A", ",", "]">>,
      <<"{", "module", "}">>, <<"{", "1", ":", "A", "}">>, <<"{", "module", ":", "A">>,
      <<SP>> }

\* the response texts handed to _parse_llm_output
ParseInputs ==
    {<<>>} \cup Undecodable
    \cup {WriteMapping(m) : m \in MemberSeqs}
    \cup {WriteValue(JList(xs)) : xs \in ListSeqs}
    \cup {JsonDumps(xs) : xs \in ListSeqs}
    \cup {<<"1">>, <<"A">>, <<SP, "1", NL>>}

InitParse ==
    /\ pc = "Parsing"
    /\ text = <<>>
    /\ response_text \in ParseInputs
    /\ parsed = <<>>
    /\ MAX_INPUT_TOKENS \in {LargeBudget}
    /\ ChunkIdle
    /\ PassIdle
    /\ InstanceBuilt
    /\ CrawlerFresh(1)

\* lines 125-152: one call of _parse_llm_output(response_text)
ParseCall ==
    /\ pc = "Parsing"
    /\ LET p == ParseLlmOutput(response_text)
       IN /\ parsed' = p.out
          /\ pc' = IF p.exc = "" THEN "Parsed" ELSE "Raised"
    /\ UNCHANGED <<text, response_text, chunkVars, instanceVars, crawlVars, passVars>>

NextParse == ParseCall

SpecParse == InitParse /\ [][NextParse]_vars

\* ------------------------------------------------------------ extract
\* what the model answers with when the API call succeeds
GatewayTexts ==
    { <<"[", "]">>,
      <<"[", "1", "]">>,
      WriteValue(JList(<<ModuleA>>)),
      WriteValue(JList(<<ModuleA, ModuleB>>)),
      WriteValue(JDict(<<"d">>, <<JList(<<JScalar("1")>>)>>)),
      WriteValue(ModuleA),
      WriteValue(ModuleLower),
      <<"1">>,
      <<"a">> }

\* how one API call can end: a message content, or an error of the client
GatewayOutcomes ==
    {[kind |-> "ok", content |-> c] : c \in GatewayTexts}
    \cup {[kind |-> k, content |-> <<>>] : k \in {"APIStatusError", "APIConnectionError"}}

\* what the log keeps of a call's end: a response, or an absorbed error; the
\* log also keeps what the parser made of the response
CallStatus(o) == IF o.kind = "ok" THEN "ok" ELSE "error"

\* (a list that is kept from one call to the next)
KeptList(previous) == previous

\* all_raw_modules = []: a new list, whatever the name was bound to before
FreshList(previous) == <<>>

\* the state a fresh extract call starts from
PassEnter ==
    /\ ci' = 1
    /\ all_raw_modules' = FreshList(all_raw_modules)
    /\ raw_modules_json_string' = <<>>
    /\ calls' = <<>>
    /\ final_response_text' = <<>>

\* lines 34-36: extract(t) on an empty or white-space-only text
ExtractBlank ==
    /\ pc = "Idle"
    /\ \E t \in TextsUpTo(MaxTextLen) :
          /\ Strip(t) = <<>>
          /\ text' = t
    /\ PassEnter
    /\ result' = <<>>
    /\ exit_path' = "blank"
    /\ pc' = "Done"
    /\ max_tokens' = 0 /\ text_blocks' = <<>> /\ bi' = 0 /\ chunks' = <<>>
    /\ chunk_src' = <<>> /\ current_chunk_blocks' = <<>> /\ current_chunk_tokens' = 0
    /\ UNCHANGED <<parseVars, instanceVars, crawlVars>>

\* lines 34, 39-40, 57, 156-157: extract(t) on any other text enters Pass 1
\* and the chunker, with the instance's budget
ExtractStart ==
    /\ pc = "Idle"
    /\ \E t \in TextsUpTo(MaxTextLen) :
          /\ Strip(t) # <<>>
          /\ text' = t
          /\ ChunkEnter(t, MAX_INPUT_TOKENS)
    /\ PassEnter
    /\ result' = <<>>
    /\ exit_path' = ""
    /\ pc' = "Chunking"
    /\ UNCHANGED <<parseVars, instanceVars, crawlVars>>

\* line 57: the chunker returns into _extract_raw_modules_from_chunks
ChunkToPass1 == ChunkReturn("Pass1InFlight")

\* lines 61-66: one iteration of the Pass-1 loop: the Gateway call for chunk
\* ci, the parse of its response, the aggregation
Pass1Call ==
    /\ pc = "Pass1InFlight"
    /\ ci <= Len(chunks)
    /\ \E o \in GatewayOutcomes :
          LET r == CallLlm(o)
              p == ParseLlmOutput(r.text)
          IN /\ calls' = Append(calls, [prompt |-> "extraction",
                                        content |-> chunks[ci],
                                        outcome |-> CallStatus(o),
                                        parsed |-> p.out])
             /\ IF r.exc # "" \/ p.exc # ""
                THEN /\ pc' = "Raised"
                     /\ UNCHANGED <<ci, all_raw_modules>>
                ELSE /\ pc' = pc
                     /\ ci' = AdvanceChunk(ci, r.text)
                     /\ all_raw_modules' = ExtendRaw(all_raw_modules, p.out)
    /\ UNCHANGED <<text, chunkVars, parseVars, instanceVars, crawlVars,
                   raw_modules_json_string, final_response_text, result, exit_path>>

\* lines 68, 40-44: Pass 1 returns the serialized raw list, which holds no
\* record: extract returns the empty list
Pass1Empty ==
    /\ pc = "Pass1InFlight"
    /\ ci > Len(chunks)
    /\ NoRawModules(JsonDumps(all_raw_modules))
    /\ raw_modules_json_string' = JsonDumps(all_raw_modules)
    /\ result' = <<>>
    /\ exit_path' = "pass1_empty"
    /\ pc' = "Done"
    /\ UNCHANGED <<text, chunkVars, parseVars, instanceVars, crawlVars, ci,
                   all_raw_modules, calls, final_response_text>>

\* lines 68, 40-48: Pass 1 returns the serialized raw list, which holds
\* records: extract enters _synthesize_and_clean_modules
Pass1Complete ==
    /\ pc = "Pass1InFlight"
    /\ ci > Len(chunks)
    /\ ~NoRawModules(JsonDumps(all_raw_modules))
    /\ raw_modules_json_string' = JsonDumps(all_raw_modules)
    /\ pc' = "SizeCheck"
    /\ UNCHANGED <<text, chunkVars, parseVars, instanceVars, crawlVars, ci,
                   all_raw_modules, calls, final_response_text, result, exit_path>>

\* lines 75-78: the serialized raw list is over the budget: the raw list is
\* decoded back and returned
SynthesisSkipped ==
    /\ pc = "SizeCheck"
    /\ TooLarge(GetTokenCount(raw_modules_json_string), MAX_INPUT_TOKENS)
    /\ LET r == JsonLoads(raw_modules_json_string)
       IN IF r.exc # ""
          THEN pc' = "Raised" /\ UNCHANGED <<result, exit_path>>
          ELSE /\ result' = (IF IsList(r.val) THEN r.val.items ELSE <<r.val>>)
               /\ exit_path' = "fallback"
               /\ pc' = "Done"
    /\ UNCHANGED <<text, chunkVars, parseVars, instanceVars, crawlVars, ci,
                   all_raw_modules, raw_modules_json_string, calls, final_response_text>>

\* lines 76, 80: the serialized raw list is within the budget
Pass2Start ==
    /\ pc = "SizeCheck"
    /\ ~TooLarge(GetTokenCount(raw_modules_json_string), MAX_INPUT_TOKENS)
    /\ pc' = "Pass2InFlight"
    /\ UNCHANGED <<text, chunkVars, parseVars, instanceVars, crawlVars, passVars>>

\* lines 81-84, 50: the Pass-2 Gateway call on the serialized raw list, the
\* parse of its response, the return
Pass2Call ==
    /\ pc = "Pass2InFlight"
    /\ \E o \in GatewayOutcomes :
          LET r == CallLlm(o)
              p == ParseLlmOutput(r.text)
          IN /\ calls' = Append(calls, [prompt |-> "synthesis",
                                        content |-> raw_modules_json_string,
                                        outcome |-> CallStatus(o),
                                        parsed |-> p.out])
             /\ final_response_text' = r.text
             /\ IF r.exc # "" \/ p.exc # ""
                THEN pc' = "Raised" /\ UNCHANGED <<result, exit_path>>
                ELSE /\ result' = SynthesisResult(p.out, all_raw_modules)
                     /\ exit_path' = "pass2"
                     /\ pc' = "Done"
    /\ UNCHANGED <<text, chunkVars, parseVars, instanceVars, crawlVars, ci,
                   all_raw_modules, raw_modules_json_string>>

\* lines 36, 44, 50: extract hands its result to the caller; the locals of the
\* call are gone and the instance is ready for the next call
ExtractReturn ==
    /\ pc = "Done"
    /\ pc' = "Idle"
    /\ text' = <<>>
    /\ max_tokens' = 0 /\ text_blocks' = <<>> /\ bi' = 0 /\ chunks' = <<>>
    /\ chunk_src' = <<>> /\ current_chunk_blocks' = <<>> /\ current_chunk_tokens' = 0
    /\ ci' = 0 /\ all_raw_modules' = <<>> /\ raw_modules_json_string' = <<>>
    /\ calls' = <<>> /\ final_response_text' = <<>> /\ result' = <<>>
    /\ exit_path' = ""
    /\ UNCHANGED <<parseVars, instanceVars, crawlVars>>

\* an extractor built with some budget, before any extract call
Init ==
    /\ pc = "Idle"
    /\ text = <<>>
    /\ MAX_INPUT_TOKENS \in Budgets
    /\ ChunkIdle
    /\ ParseIdle
    /\ PassIdle
    /\ InstanceBuilt
    /\ CrawlerFresh(1)

Next ==
    \/ ExtractBlank
    \/ ExtractStart
    \/ ChunkForceSplit
    \/ ChunkAccumulate
    \/ ChunkToPass1
    \/ Pass1Call
    \/ Pass1Empty
    \/ Pass1Complete
    \/ SynthesisSkipped
    \/ Pass2Start
    \/ Pass2Call
    \/ ExtractReturn

Spec == Init /\ [][Next]_vars

\* --------------------------------------------- one instance, call after call
\* lines 36, 44, 50: extract hands its result to the caller, who keeps the
\* instance for the next text (main.py lines 55, 66, 96); the record list of
\* the call that ended is left as it was, the next call makes its own
ExtractReturnServed ==
    /\ pc = "Done"
    /\ pc' = "Idle"
    /\ served' = TRUE
    /\ text' = <<>>
    /\ max_tokens' = 0 /\ text_blocks' = <<>> /\ bi' = 0 /\ chunks' = <<>>
    /\ chunk_src' = <<>> /\ current_chunk_blocks' = <<>> /\ current_chunk_tokens' = 0
    /\ ci' = 0 /\ raw_modules_json_string' = <<>>
    /\ calls' = <<>> /\ final_response_text' = <<>> /\ result' = <<>>
    /\ exit_path' = ""
    /\ UNCHANGED <<parseVars, MAX_INPUT_TOKENS, given_key, api_key, all_raw_modules,
                   crawlVars>>

\* the budgets of the instances followed from call to call: the largest
\* small one and the large one
ReuseBudgets == {MaxBudget, LargeBudget}

InitReuse ==
    /\ pc = "Idle"
    /\ text = <<>>
    /\ MAX_INPUT_TOKENS \in ReuseBudgets
    /\ ChunkIdle
    /\ ParseIdle
    /\ PassIdle
    /\ InstanceBuilt
    /\ CrawlerFresh(1)

NextReuse ==
    \/ ExtractBlank
    \/ ExtractStart
    \/ ChunkForceSplit
    \/ ChunkAccumulate
    \/ ChunkToPass1
    \/ Pass1Call
    \/ Pass1Empty
    \/ Pass1Complete
    \/ SynthesisSkipped
    \/ Pass2Start
    \/ Pass2Call
    \/ ExtractReturnServed

SpecReuse == InitReuse /\ [][NextReuse]_vars

\* ------------------------------------------------------------ construction
\* lines 11-25: LLMModuleExtractor(api_key=given_key): a ValueError on a
\* missing credential, or an instance with its credential and its budget
Construct ==
    /\ pc = "NoInstance"
    /\ IF MissingKey(given_key)
       THEN /\ pc' = "ConfigurationError"
            /\ UNCHANGED <<MAX_INPUT_TOKENS, api_key>>
       ELSE /\ pc' = "Idle"
            /\ api_key' = given_key
            /\ MAX_INPUT_TOKENS' \in Budgets
    /\ UNCHANGED <<text, chunkVars, parseVars, given_key, served, passVars, crawlVars>>

\* main.py lines 13, 55: before the extractor is built, with any credential
InitBuild ==
    /\ pc = "NoInstance"
    /\ text = <<>>
    /\ given_key \in ApiKeys
    /\ api_key = NoKey
    /\ served = FALSE
    /\ MAX_INPUT_TOKENS = 0
    /\ ChunkIdle
    /\ ParseIdle
    /\ PassIdle
    /\ CrawlerFresh(1)

NextBuild == Construct \/ Next

SpecBuild == InitBuild /\ [][NextBuild]_vars

\* ------------------------------------------------------------------ crawl
\* the seeds handed to crawl: pages of both sites, and two invalid URLs
Seeds == {A0, A2, B0, B1, Ftp, NoNetloc}

\* lines 38-45: crawl(u) on an invalid URL, or one without a base domain,
\* returns a new empty mapping
CrawlReject ==
    /\ pc = "CrawlIdle"
    /\ \E u \in Seeds :
          /\ ~IsValidUrl(u) \/ GetBaseDomain(u) = ""
          /\ start_url' = u
    /\ crawl_result' = <<>>
    /\ fetch_log' = <<>>
    /\ pc' = "CrawlReturned"
    /\ UNCHANGED <<text, chunkVars, parseVars, instanceVars, passVars, max_depth,
                   visited_urls, queue, crawled_content, base_domain>>

\* lines 38-49: crawl(u) on a valid URL enqueues it at depth 0 and marks it
\* visited
CrawlBegin ==
    /\ pc = "CrawlIdle"
    /\ \E u \in Seeds :
          /\ IsValidUrl(u) /\ GetBaseDomain(u) # ""
          /\ start_url' = u
          /\ base_domain' = GetBaseDomain(u)
          /\ queue' = Append(queue, <<u, 0>>)
          /\ visited_urls' = visited_urls \cup {u}
    /\ fetch_log' = <<>>
    /\ pc' = "Crawling"
    /\ UNCHANGED <<text, chunkVars, parseVars, instanceVars, passVars, max_depth,
                   crawled_content, crawl_result>>

\* lines 51-56: the head of the queue is deeper than max_depth: it is dropped
CrawlSkipDeep ==
    /\ pc = "Crawling"
    /\ queue # <<>>
    /\ Head(queue)[2] > max_depth
    /\ queue' = Tail(queue)
    /\ UNCHANGED <<pc, text, chunkVars, parseVars, instanceVars, passVars, max_depth,
                   visited_urls, crawled_content, base_domain, start_url, fetch_log,
                   crawl_result>>

\* lines 51-52, 58-81: the head of the queue is fetched, its page is stored,
\* and its relevant same-domain links not yet visited are enqueued one deeper
CrawlPage ==
    /\ pc = "Crawling"
    /\ queue # <<>>
    /\ LET current_url == Head(queue)[1]
           depth == Head(queue)[2]
           after == EnqueueLinks(links_to_add[current_url], depth, base_domain,
                                 Tail(queue), visited_urls)
       IN /\ depth <= max_depth
          /\ fetch_log' = Append(fetch_log, <<current_url, depth, TRUE>>)
          /\ crawled_content' = DictSetKey(crawled_content, current_url)
          /\ queue' = after.queue
          /\ visited_urls' = after.visited_urls
    /\ UNCHANGED <<pc, text, chunkVars, parseVars, instanceVars, passVars, max_depth,
                   base_domain, start_url, crawl_result>>

\* (a failed fetch put back at the end of the queue)
CrawlNoContentRetry ==
    /\ pc = "Crawling"
    /\ queue # <<>>
    /\ Head(queue)[2] <= max_depth
    /\ queue' = Append(Tail(queue), Head(queue))
    /\ UNCHANGED <<pc, text, chunkVars, parseVars, instanceVars, passVars, max_depth,
                   visited_urls, crawled_content, base_domain, start_url, fetch_log,
                   crawl_result>>

\* lines 51-52, 58-61, 82-83, 98-107: the fetch of the head of the queue
\* fails, or gives an empty body: nothing is stored, nothing enqueued
CrawlNoContent ==
    /\ pc = "Crawling"
    /\ queue # <<>>
    /\ Head(queue)[2] <= max_depth
    /\ fetch_log' = Append(fetch_log, <<Head(queue)[1], Head(queue)[2], FALSE>>)
    /\ queue' = Tail(queue)
    /\ UNCHANGED <<pc, text, chunkVars, parseVars, instanceVars, passVars, max_depth,
                   visited_urls, crawled_content, base_domain, start_url, crawl_result>>

\* lines 51, 85-86: the queue is empty: crawl returns self.crawled_content
CrawlReturn ==
    /\ pc = "Crawling"
    /\ queue = <<>>
    /\ crawl_result' = crawled_content
    /\ pc' = "CrawlReturned"
    /\ UNCHANGED <<text, chunkVars, parseVars, instanceVars, passVars, max_depth,
                   visited_urls, queue, crawled_content, base_domain, start_url,
                   fetch_log>>

\* main.py lines 66-73: the loop over the entered URLs goes on to the next
\* one, with the same crawler
CrawlNextUrl ==
    /\ pc = "CrawlReturned"
    /\ pc' = "CrawlIdle"
    /\ crawl_result' = <<>>
    /\ fetch_log' = <<>>
    /\ UNCHANGED <<text, chunkVars, parseVars, instanceVars, passVars, max_depth,
                   visited_urls, queue, crawled_content, base_domain, start_url>>

\* the depths a crawler is built with
Depths == 0..MaxDepth

\* WebCrawler(max_depth=d), before its first crawl
InitCrawl ==
    /\ pc = "CrawlIdle"
    /\ text = <<>>
    /\ MAX_INPUT_TOKENS \in {LargeBudget}
    /\ ChunkIdle
    /\ ParseIdle
    /\ PassIdle
    /\ InstanceBuilt
    /\ \E d \in Depths : CrawlerFresh(d)

NextCrawl ==
    \/ CrawlReject
    \/ CrawlBegin
    \/ CrawlSkipDeep
    \/ CrawlPage
    \/ CrawlNoContent
    \/ CrawlReturn
    \/ CrawlNextUrl

SpecCrawl == InitCrawl /\ [][NextCrawl]_vars

\* lines 51-86: one turn of the while loop, or its end; every _fetch_page
\* call returns (requests.get has a timeout, line 102), so a crawl under way
\* always takes its next turn
CrawlLoop == CrawlReturn \/ CrawlSkipDeep \/ CrawlNoContent \/ CrawlPage

SpecCrawlLive == InitCrawl /\ [][NextCrawl]_vars /\ WF_vars(CrawlLoop)

\* ------------------------------------------------------------ chunker claims
RECURSIVE ConcatAll(_)
ConcatAll(ss) == IF Len(ss) = 0 THEN <<>> ELSE ss[1] \o ConcatAll(Tail(ss))

\* the last index j >= i such that chunks i..j are slices of the same block
SliceRunEnd(src, i) ==
    CHOOSE j \in i..Len(src) :
        /\ \A k \in i..j : src[k] = src[i]
        /\ (j = Len(src) \/ src[j + 1] # src[i])

RECURSIVE Reassemble(_, _, _)
\* the blocks read back from chunks i.. : a normally accumulated chunk is split
\* on the blank-line separator, the slices of one force-split block are
\* concatenated
Reassemble(cs, src, i) ==
    IF i > Len(cs) THEN <<>>
    ELSE IF src[i] = 0 THEN SplitBlocks(cs[i]) \o Reassemble(cs, src, i + 1)
    ELSE LET j == SliceRunEnd(src, i)
         IN <<ConcatAll(SubSeq(cs, i, j))>> \o Reassemble(cs, src, j + 1)

\* C1 (as claimed): every chunk that is not a force-split slice has a token
\* count, separators included, of at most max_tokens.
C1_NormalChunksWithinBudget ==
    \A i \in 1..Len(chunks) :
        chunk_src[i] = 0 => GetTokenCount(chunks[i]) <= max_tokens

\* C2 (as claimed): a text whose token count is at most max_tokens comes back
\* as exactly one chunk, equal to the text.
C2_SmallTextOneChunk ==
    (pc = "Returned" /\ GetTokenCount(text) <= max_tokens) => chunks = <<text>>

\* C3: the chunks read back in order give exactly the blocks of the input:
\* nothing is dropped, reordered or duplicated.
C3_NothingLost ==
    pc = "Returned" => Reassemble(chunks, chunk_src, 1) = SplitBlocks(text)

\* C3 witness: a returned chunking with a flushed chunk of two blocks before
\* a block that was force-split into at least two slices.
C3_Witness ==
    /\ pc = "Returned"
    /\ \E i \in 1..Len(chunks) :
          /\ chunk_src[i] = 0
          /\ Len(SplitBlocks(chunks[i])) >= 2
          /\ i + 2 <= Len(chunks)
          /\ chunk_src[i + 1] # 0
          /\ chunk_src[i + 2] = chunk_src[i + 1]

\* C12 (as claimed): the chunker applied to the empty string returns no chunk
\* at all, for every budget.
C12_EmptyTextNoChunks ==
    (pc = "Returned" /\ text = <<>>) => chunks = <<>>

\* C18 (as claimed): while the chunker accumulates, the running token count
\* of the open chunk is the token count of its blocks joined by the paragraph
\* separator, and an open chunk of several blocks is within the budget, a
\* block being added to a non-empty chunk only when that count stays
\* <= max_tokens.
C18_RunningCountRecomputed ==
    (pc = "Chunking" /\ current_chunk_blocks # <<>>) =>
        /\ current_chunk_tokens = GetTokenCount(JoinBlocks(current_chunk_blocks))
        /\ Len(current_chunk_blocks) >= 2
              => GetTokenCount(JoinBlocks(current_chunk_blocks)) <= max_tokens

\* the chunks the step under way has emitted
EmittedNow == SubSeq(chunks', Len(chunks) + 1, Len(chunks'))

\* C19: the step of the chunker on a block whose own token count exceeds
\* max_tokens emits the pending chunk first, if there is one, then the block
\* as slices of exactly max_tokens * 3 characters in order, the last
\* possibly shorter, each a chunk of its own; the accumulation is empty after
\* it.
C19_ForceSplit ==
    [][(/\ pc = "Chunking" /\ bi <= Len(text_blocks) /\ bi' = bi + 1
        /\ GetTokenCount(text_blocks[bi]) > max_tokens)
       => LET block == text_blocks[bi]
              np == IF current_chunk_blocks # <<>> THEN 1 ELSE 0
              slices == SubSeq(EmittedNow, np + 1, Len(EmittedNow))
          IN /\ Len(EmittedNow) >= np + 1
             /\ np = 1 => EmittedNow[1] = JoinBlocks(current_chunk_blocks)
             /\ \A k \in 1..(Len(slices) - 1) : Len(slices[k]) = max_tokens * 3
             /\ Len(slices[Len(slices)]) \in 1..(max_tokens * 3)
             /\ ConcatAll(slices) = block
             /\ current_chunk_blocks' = <<>>
             /\ current_chunk_tokens' = 0]_vars

\* C19 witness: a pending chunk was emitted, then a block as a full slice and
\* a shorter last one, and the accumulation is empty.
C19_Witness ==
    /\ pc = "Chunking" /\ bi = 3
    /\ Len(chunks) = 3
    /\ chunk_src = <<0, 2, 2>>
    /\ chunks[1] = text_blocks[1]
    /\ Len(chunks[2]) = max_tokens * 3
    /\ Len(chunks[3]) < Len(chunks[2])
    /\ current_chunk_blocks = <<>>

\* ------------------------------------------------------------- parser claims
\* the value the response decodes to, when it decodes
Decodes == response_text # <<>> /\ JsonLoads(response_text).exc = ""
Decoded == JsonLoads(response_text).val

\* C4 (as claimed): a mapping with a `module` key and a `description` key and
\* no list-valued member comes back as the one-element sequence holding it.
C4_LowerCaseCoerced ==
    (/\ pc = "Parsed" /\ Decodes /\ IsDict(Decoded)
     /\ HasKey(Decoded, "module") /\ HasKey(Decoded, "description")
     /\ ~HasListValue(Decoded))
    => parsed = <<Decoded>>

\* C4 (amended): a mapping with a `module` key and a `Description` key (capital
\* D, matched exactly) and no list-valued member comes back as the one-element
\* sequence holding it.
C4_SingleModuleCoerced ==
    (/\ pc = "Parsed" /\ Decodes /\ IsDict(Decoded)
     /\ HasKey(Decoded, "module") /\ HasKey(Decoded, "Description")
     /\ ~HasListValue(Decoded))
    => parsed = <<Decoded>>

\* C4 witness: the parser has returned a mapping with module, Description and
\* a third, non-list member, wrapped in a one-element sequence.
C4_Witness ==
    /\ pc = "Parsed" /\ Decodes /\ IsDict(Decoded)
    /\ Decoded.keys = <<"module", "Description", "description">>
    /\ ~HasListValue(Decoded)
    /\ parsed = <<Decoded>>

\* C10: a decoded list comes back unchanged, whatever its elements; a decoded
\* mapping with a list-valued member comes back as the first such member in
\* member order, also when the mapping has the module and Description keys.
C10_ListsReturnedAsIs ==
    (pc = "Parsed" /\ Decodes) =>
        /\ IsList(Decoded) => parsed = Decoded.items
        /\ (IsDict(Decoded) /\ HasListValue(Decoded)) =>
              \E i \in 1..Len(Decoded.items) :
                  /\ IsList(Decoded.items[i])
                  /\ \A k \in 1..(i - 1) : ~IsList(Decoded.items[k])
                  /\ parsed = Decoded.items[i].items

\* C10 witness: the parser has returned the first of two different lists of a
\* mapping that also has the module and Description keys.
C10_Witness ==
    /\ pc = "Parsed" /\ Decodes /\ IsDict(Decoded)
    /\ HasKey(Decoded, "module") /\ HasKey(Decoded, "Description")
    /\ \E i, j \in 1..Len(Decoded.items) :
          /\ i < j
          /\ IsList(Decoded.items[i]) /\ IsList(Decoded.items[j])
          /\ Decoded.items[i] # Decoded.items[j]
          /\ \A k \in 1..(i - 1) : ~IsList(Decoded.items[k])
          /\ parsed = Decoded.items[i].items
          /\ parsed # <<>>

\* the response decodes to a value of no recognised shape: not a list, not a
\* mapping with a list-valued member, not a mapping with the module and
\* Description keys
Unrecognised ==
    /\ Decodes
    /\ ~IsList(Decoded)
    /\ ~(IsDict(Decoded) /\ HasListValue(Decoded))
    /\ ~(IsDict(Decoded) /\ HasKey(Decoded, "module") /\ HasKey(Decoded, "Description"))

\* C11: the parser never raises, and it returns the empty sequence for the
\* empty text, for a text that does not decode, and for a decoded value of no
\* recognised shape (a scalar, an unrelated mapping).
C11_ParserNeverRaises ==
    /\ pc # "Raised"
    /\ (pc = "Parsed" /\ (response_text = <<>> \/ ~Decodes \/ Unrecognised))
          => parsed = <<>>

\* C11 witness: the parser has returned the empty sequence for a mapping that
\* has the module key and the lower-case description key, but no Description.
C11_Witness ==
    /\ pc = "Parsed" /\ Unrecognised /\ IsDict(Decoded)
    /\ HasKey(Decoded, "module") /\ HasKey(Decoded, "description")
    /\ parsed = <<>>

\* ------------------------------------------------------------ extract claims
Pass1Over == pc \in {"SizeCheck", "Pass2InFlight", "Done"} /\ exit_path # "blank"
SynthesisCalls == {i \in 1..Len(calls) : calls[i].prompt = "synthesis"}
SerializedTokens == GetTokenCount(JsonDumps(all_raw_modules))

\* C5: once Pass 1 has produced a non-empty raw list whose serialized form
\* counts more tokens than the budget, no Pass-2 call is ever made and extract
\* returns exactly the raw list; and the raw list is returned this way only
\* when the count is strictly over the budget.
C5_OversizeFallback ==
    /\ (Pass1Over /\ all_raw_modules # <<>> /\ SerializedTokens > MAX_INPUT_TOKENS)
          => /\ SynthesisCalls = {}
             /\ pc # "Pass2InFlight"
             /\ pc = "Done" => result = all_raw_modules
    /\ (pc = "Done" /\ exit_path = "fallback") => SerializedTokens > MAX_INPUT_TOKENS
    /\ (Pass1Over /\ all_raw_modules # <<>> /\ SerializedTokens <= MAX_INPUT_TOKENS)
          => exit_path # "fallback"

\* C5 witness: extract has returned, unmodified, a raw list of three records
\* aggregated from two chunks, without a Pass-2 call.
C5_Witness ==
    /\ pc = "Done" /\ exit_path = "fallback"
    /\ Len(chunks) = 2 /\ Len(calls) = 2
    /\ Len(all_raw_modules) = 3
    /\ result = all_raw_modules

\* C6: when Pass 1 is over and no chunk has given a record, extract has
\* returned the empty sequence and no Pass-2 call is made.
C6_EmptyPass1SkipsPass2 ==
    (Pass1Over /\ all_raw_modules = <<>>)
        => (pc = "Done" /\ result = <<>> /\ SynthesisCalls = {})

\* C6 witness: extract has returned empty after two Pass-1 calls, one answered
\* and one failed, neither giving a record.
C6_Witness ==
    /\ pc = "Done" /\ exit_path = "pass1_empty"
    /\ Len(calls) = 2
    /\ calls[1].outcome = "ok" /\ calls[2].outcome = "error"
    /\ result = <<>>

\* the text of the call is empty or holds white space only
BlankText == \A i \in 1..Len(text) : text[i] \in Whitespace

\* C7: on an empty or white-space-only text extract returns the empty
\* sequence at once: no chunking, no Gateway call.
C7_BlankInputNoCalls ==
    (pc # "Idle" /\ BlankText)
        => (pc = "Done" /\ result = <<>> /\ calls = <<>> /\ text_blocks = <<>>
            /\ chunks = <<>>)

\* C7 witness: extract has returned on a non-empty text of white space only.
C7_Witness ==
    /\ pc = "Done" /\ exit_path = "blank"
    /\ Len(text) >= 2 /\ BlankText
    /\ calls = <<>>

\* C8: no exception leaves extract, whatever the Gateway calls end as.
C8_NeverRaises ==
    /\ pc # "Raised"
    /\ pc = "Done" => exit_path \in {"blank", "pass1_empty", "fallback", "pass2"}

\* C8 witness: extract has returned after a failed Pass-1 call, an answered
\* one, and a Pass-2 response that does not decode.
C8_Witness ==
    /\ pc = "Done" /\ Len(calls) = 3
    /\ calls[1].outcome = "error" /\ calls[2].outcome = "ok"
    /\ calls[3].prompt = "synthesis" /\ calls[3].outcome = "ok"
    /\ JsonLoads(final_response_text).exc = "JSONDecodeError"

\* C9: when Pass 1 has produced a non-empty raw list whose serialized form is
\* within the budget, extract returns after exactly one Pass-2 call, the last
\* call, whose content is the serialized raw list, and its result is the
\* parser's result on that call's response.
C9_SynthesisResultReturned ==
    (pc = "Done" /\ all_raw_modules # <<>> /\ SerializedTokens <= MAX_INPUT_TOKENS)
        => /\ SynthesisCalls = {Len(calls)}
           /\ calls[Len(calls)].content = JsonDumps(all_raw_modules)
           /\ Len(calls) = Len(chunks) + 1
           /\ \/ /\ calls[Len(calls)].outcome = "error"
                 /\ final_response_text = <<>> /\ result = <<>>
              \/ /\ calls[Len(calls)].outcome = "ok"
                 /\ final_response_text \in GatewayTexts
                 /\ result = ParseLlmOutput(final_response_text).out

\* C9 witness: one chunk gave two raw records, Pass 2 answered with one merged
\* record, and extract returned that one record.
C9_Witness ==
    /\ pc = "Done" /\ Len(chunks) = 1
    /\ all_raw_modules = <<ModuleA, ModuleB>>
    /\ Len(calls) = 2
    /\ calls[2].prompt = "synthesis"
    /\ result = <<ModuleA>>

\* the parsed record lists of the first k calls, one after the other
ParsedUpTo(k) == ConcatAll([i \in 1..k |-> calls[i].parsed])

\* C15: Pass 1 goes through the chunks one at a time and in order: when the
\* call for chunk ci is next, exactly the calls for chunks 1..ci-1 have been
\* made, in that order, and the aggregated raw list is the concatenation, in
\* chunk order, of what the parser gave for each of them, unmodified.
C15_Pass1InOrder ==
    (pc \in {"Pass1InFlight", "SizeCheck", "Pass2InFlight", "Done"}
     /\ exit_path # "blank") =>
        /\ ci \in 1..(Len(chunks) + 1)
        /\ Len(calls) >= ci - 1
        /\ pc = "Pass1InFlight" => Len(calls) = ci - 1
        /\ pc # "Pass1InFlight" => ci = Len(chunks) + 1
        /\ \A i \in 1..(ci - 1) :
              calls[i].prompt = "extraction" /\ calls[i].content = chunks[i]
        /\ all_raw_modules = ParsedUpTo(ci - 1)

\* C15 witness: Pass 1 is over two chunks that gave different non-empty
\* record lists, three records in all.
C15_Witness ==
    /\ pc = "SizeCheck" /\ Len(chunks) = 2
    /\ calls[1].parsed # <<>> /\ calls[2].parsed # <<>>
    /\ calls[1].parsed # calls[2].parsed
    /\ Len(all_raw_modules) = 3

\* C16: no call is made twice: the i-th call of an extract call over n chunks
\* is the extraction call on chunk i for i <= n, whether or not the earlier
\* calls failed, and the synthesis call for i = n + 1; there is no call
\* after it, and extract returns after n or n + 1 calls.
C16_NoRetries ==
    /\ Len(calls) <= Len(chunks) + 1
    /\ \A i \in 1..Len(calls) :
          IF i <= Len(chunks)
          THEN calls[i].prompt = "extraction" /\ calls[i].content = chunks[i]
          ELSE calls[i].prompt = "synthesis"
    /\ (pc = "Done" /\ exit_path # "blank")
          => Len(calls) \in {Len(chunks), Len(chunks) + 1}

\* C16 witness: extract has returned over two chunks after three calls, the
\* second and the third of which failed.
C16_Witness ==
    /\ pc = "Done" /\ Len(chunks) = 2 /\ Len(calls) = 3
    /\ calls[2].outcome = "error" /\ calls[3].outcome = "error"

\* the records of the first k calls that were answered, one after the other
RecordsOfAnswered(k) ==
    ConcatAll([i \in 1..k |-> IF calls[i].outcome = "ok" THEN calls[i].parsed ELSE <<>>])

\* C21: a Pass-1 call that fails, or whose response the parser makes nothing
\* of, does not end Pass 1: no exception leaves it, the failed call gives no
\* record, every chunk has had its call when Pass 1 is over, and the raw list
\* is then the concatenation of the records of the answered calls.
C21_FailedChunkSkipped ==
    /\ pc # "Raised"
    /\ \A i \in 1..Len(calls) : calls[i].outcome = "error" => calls[i].parsed = <<>>
    /\ Pass1Over =>
          /\ Len(calls) >= Len(chunks)
          /\ \A i \in 1..Len(chunks) : calls[i].content = chunks[i]
          /\ all_raw_modules = RecordsOfAnswered(Len(chunks))

\* C21 witness: Pass 1 is over two chunks; the call for the first failed, the
\* call for the second was made and its records are the raw list.
C21_Witness ==
    /\ pc = "SizeCheck" /\ Len(chunks) = 2 /\ Len(calls) = 2
    /\ calls[1].outcome = "error"
    /\ calls[2].outcome = "ok" /\ calls[2].parsed # <<>>
    /\ all_raw_modules = calls[2].parsed

RECURSIVE ChunksFrom(_, _, _, _, _, _)
\* the chunks of the blocks i.., after `out` was emitted and with `cur` open
\* at a running count of `tok`: the chunker's loop and trailing flush
ChunksFrom(blocks, i, mt, out, cur, tok) ==
    IF i > Len(blocks)
    THEN IF cur # <<>> THEN Append(out, JoinBlocks(cur)) ELSE out
    ELSE LET block == blocks[i]
             block_tokens == GetTokenCount(block)
             pending == IF cur # <<>> THEN <<JoinBlocks(cur)>> ELSE <<>>
         IN IF Oversized(block_tokens, mt)
            THEN ChunksFrom(blocks, i + 1, mt,
                            out \o pending \o ForceSplitSlices(block, CharLimit(mt)),
                            <<>>, 0)
            ELSE IF MustCloseChunk(tok, block_tokens, mt, cur)
                 THEN ChunksFrom(blocks, i + 1, mt, out \o pending, <<block>>,
                                 NextChunkTokens(0, <<block>>))
                 ELSE ChunksFrom(blocks, i + 1, mt, out, Append(cur, block),
                                 NextChunkTokens(tok, Append(cur, block)))

\* the chunks of a text at a budget, from the text and the budget alone
ChunksOf(t, mt) == ChunksFrom(SplitBlocks(t), 1, mt, <<>>, <<>>, 0)

\* C22: whatever calls the instance served before, what extract sends and
\* returns is decided by the text of the call, the instance's budget and the
\* responses received during the call: each chunk of the text goes out in
\* order, the raw list is what the parser made of the responses, and the
\* result is empty, the raw list, or the parse of the one synthesis
\* response; and no step changes the budget or the credential.
C22_NoStateCrossesCalls ==
    /\ [](pc = "Done" =>
             LET cs == ChunksOf(text, MAX_INPUT_TOKENS)
                 n == Len(cs)
                 raw == ConcatAll([i \in 1..Min(n, Len(calls)) |-> calls[i].parsed])
             IN IF BlankText THEN result = <<>> /\ calls = <<>>
                ELSE /\ Len(calls) >= n
                     /\ \A i \in 1..n : calls[i].content = cs[i]
                     /\ IF raw = <<>> THEN result = <<>> /\ Len(calls) = n
                        ELSE IF GetTokenCount(JsonDumps(raw)) > MAX_INPUT_TOKENS
                             THEN result = raw /\ Len(calls) = n
                             ELSE /\ Len(calls) = n + 1
                                  /\ calls[n + 1].content = JsonDumps(raw)
                                  /\ result = calls[n + 1].parsed)
    /\ [][MAX_INPUT_TOKENS' = MAX_INPUT_TOKENS /\ api_key' = api_key]_vars

\* C22 witness: an instance that served a call before has returned the parse
\* of a synthesis response over the raw records of two chunks.
C22_Witness ==
    /\ served
    /\ pc = "Done" /\ exit_path = "pass2"
    /\ Len(chunks) = 2 /\ Len(calls) = 3
    /\ calls[1].parsed # <<>>
    /\ result # <<>>

\* the transitions of an extract call
ExtractTransitions ==
    { <<"Idle", "Chunking">>, <<"Idle", "Done">>,
      <<"Chunking", "Chunking">>, <<"Chunking", "Pass1InFlight">>,
      <<"Pass1InFlight", "Pass1InFlight">>, <<"Pass1InFlight", "SizeCheck">>,
      <<"Pass1InFlight", "Done">>,
      <<"SizeCheck", "Done">>, <<"SizeCheck", "Pass2InFlight">>,
      <<"Pass2InFlight", "Done">>,
      <<"Done", "Idle">> }

\* C17: an extract call takes only the transitions Idle -> Chunking ->
\* Pass1InFlight (chunk 1..n) -> SizeCheck -> Pass2InFlight or the fallback ->
\* Done, or goes to Done early on a blank text or an empty Pass-1 result;
\* Pass 2 is in flight only after all n chunks have had their call and the
\* size check has passed, and the size check is never made on an empty raw
\* list.
C17_TransitionsOnly ==
    /\ [][/\ <<pc, pc'>> \in ExtractTransitions
          /\ (pc = "Idle" /\ pc' = "Done")
                => \A i \in 1..Len(text') : text'[i] \in Whitespace
          /\ (pc = "Pass1InFlight" /\ pc' = "Done")
                => (ci = Len(chunks) + 1 /\ all_raw_modules = <<>>)
          /\ (pc = "Pass1InFlight" /\ pc' = "SizeCheck") => ci = Len(chunks) + 1
          /\ (pc = "SizeCheck" /\ pc' = "Done") => calls' = calls]_vars
    /\ [](pc = "Pass1InFlight" => Len(chunks) >= 1)
    /\ [](pc = "SizeCheck" => all_raw_modules # <<>>)
    /\ [](pc = "Pass2InFlight" =>
            /\ Len(calls) = Len(chunks)
            /\ \A i \in 1..Len(chunks) : calls[i].prompt = "extraction"
            /\ all_raw_modules # <<>>
            /\ GetTokenCount(raw_modules_json_string) <= MAX_INPUT_TOKENS)

\* C17 witness: Pass 2 is in flight after the calls for two chunks.
C17_Witness ==
    /\ pc = "Pass2InFlight"
    /\ Len(chunks) = 2 /\ Len(calls) = 2

\* the responses of the model's Gateway that the parser turns into no record
NoRecordTexts == {<<"[", "]">>, <<"1">>, <<"a">>, WriteValue(ModuleLower)}

\* C20: when Pass 1 produced a non-empty raw list within the budget and the
\* Pass-2 call failed, or answered with a text the parser turns into no
\* record, extract returns the empty sequence, not the raw records.
C20_NoFallbackOnPass2Failure ==
    (/\ pc = "Done" /\ all_raw_modules # <<>>
     /\ SerializedTokens <= MAX_INPUT_TOKENS
     /\ Len(calls) = Len(chunks) + 1
     /\ \/ calls[Len(calls)].outcome = "error"
        \/ final_response_text \in NoRecordTexts)
    => (result = <<>> /\ exit_path = "pass2")

\* C20 witness: two raw records within the budget, a failed Pass-2 call, and
\* the empty sequence returned.
C20_Witness ==
    /\ pc = "Done" /\ Len(all_raw_modules) = 2
    /\ Len(calls) = Len(chunks) + 1
    /\ calls[Len(calls)].prompt = "synthesis"
    /\ calls[Len(calls)].outcome = "error"
    /\ result = <<>>

\* ------------------------------------------------------- construction claims
\* C14: with a missing or empty credential the constructor fails at once with
\* the configuration error: no instance ever exists, no credential is stored,
\* and no Gateway call is ever made.
C14_MissingKeyFailsAtConstruction ==
    (given_key = NoKey \/ given_key = "") =>
        /\ pc \in {"NoInstance", "ConfigurationError"}
        /\ api_key = NoKey
        /\ calls = <<>>

\* C14 witness: the constructor has raised on the empty credential.
C14_Witness ==
    /\ pc = "ConfigurationError"
    /\ given_key = ""
    /\ calls = <<>>

\* -------------------------------------------------------------- crawl claims
\* the URLs whose fetch was attempted during this crawl call
FetchedThisCrawl == {fetch_log[i][1] : i \in 1..Len(fetch_log)}

\* C13 (as claimed): the mapping crawl(seed) returns holds only URLs reached
\* from that seed during that call, all of the seed's base domain, whatever
\* crawl calls the instance served before.
C13_ResultOfThisSeedOnly ==
    pc = "CrawlReturned" =>
        \A i \in 1..Len(crawl_result) :
            /\ GetBaseDomain(crawl_result[i]) = GetBaseDomain(start_url)
            /\ crawl_result[i] \in FetchedThisCrawl

\* the URLs whose page this crawl call got, in the order of the fetches
PagesGot ==
    LET got == SelectSeq(fetch_log, LAMBDA e : e[3])
    IN [i \in 1..Len(got) |-> got[i][1]]

\* C23 (as claimed): in a crawl no page is fetched deeper than max_depth, the
\* seed being at depth 0 and a link found on a fetched page of depth d at
\* depth d + 1; the fetches are in non-decreasing depth order; and the keys
\* of the returned mapping, in insertion order, are the pages got, in the
\* order they were visited.
C23_BreadthFirstToDepth ==
    /\ \A i \in 1..Len(fetch_log) : fetch_log[i][2] \in 0..max_depth
    /\ fetch_log # <<>> => (fetch_log[1][1] = start_url /\ fetch_log[1][2] = 0)
    /\ \A i \in 2..Len(fetch_log) :
          \E j \in 1..(i - 1) :
              /\ fetch_log[j][3]
              /\ fetch_log[i][2] = fetch_log[j][2] + 1
              /\ \E k \in 1..Len(LinksToAdd(fetch_log[j][1])) :
                    LinksToAdd(fetch_log[j][1])[k] = fetch_log[i][1]
    /\ \A i, j \in 1..Len(fetch_log) : i < j => fetch_log[i][2] <= fetch_log[j][2]
    /\ pc = "CrawlReturned" => crawl_result = PagesGot

\* the keys of self.crawled_content
CrawledUrls == {crawled_content[i] : i \in 1..Len(crawled_content)}
\* the URLs in the queue
QueuedUrls == {queue[i][1] : i \in 1..Len(queue)}

\* C24 (as claimed): over any sequence of crawl calls on one instance, every
\* URL in the queue is in visited_urls, no URL is in the queue twice, a URL
\* is put on the queue only if it was never visited before, and a fetch is
\* never made of a URL whose page the instance already holds.
C24_EnqueuedAndFetchedOnce ==
    /\ [](QueuedUrls \subseteq visited_urls)
    /\ [](\A i, j \in 1..Len(queue) : i < j => queue[i][1] # queue[j][1])
    /\ [][/\ \A u \in QueuedUrls' \ QueuedUrls : u \notin visited_urls
          /\ Len(fetch_log') = Len(fetch_log) + 1
                => fetch_log'[Len(fetch_log')][1] \notin CrawledUrls]_vars

\* C25: a crawl under way always comes to its end: the queue runs empty and
\* crawl returns its mapping, whatever the fetches give, cycles or not.
C25_CrawlTerminates ==
    (pc = "Crawling") ~> (pc = "CrawlReturned" /\ queue = <<>>)

\* C25 witness: a crawl has returned after fetches of pages that link back
\* to pages already visited, one fetch having failed.
C25_Witness ==
    /\ pc = "CrawlReturned" /\ queue = <<>>
    /\ start_url = A0
    /\ \E i, j \in 1..Len(fetch_log) :
          /\ fetch_log[i] = <<A1, 1, TRUE>>
          /\ fetch_log[j][1] = A3 /\ ~fetch_log[j][3]
    /\ Len(fetch_log) >= 4

====
